---- MODULE Spec2Model ----
(***************************************************************************)
(* The Mario expert agent of scripts/mario_expert.py: the perception       *)
(* helpers of MarioController, the spatial predicates and the rule chain   *)
(* of MarioExpert.choose_action, the action queue driven by                *)
(* MarioExpert.step, and the episode loop of MarioExpert.play.             *)
(*                                                                         *)
(* Python values are modelled as follows.  A predicate's result is one of  *)
(* the strings "T", "F" or the name of the exception it raises.  A tile    *)
(* grid of Rows x Cols cells is held as the function from the cells that   *)
(* differ from the bare level to their tile codes.                         *)
(* Indexing follows Python: an index in -n..-1 wraps to the end, an index  *)
(* outside -n..n-1 raises IndexError.                                      *)
(***************************************************************************)
EXTENDS Integers, Sequences, FiniteSets, TLC

VARIABLES
    actions,       \* MarioExpert.actions: the class-level list, shared by every instance
    cls_enemies,   \* MarioExpert.enemies: the class-level list
    own_enemies,   \* whether the instance has its own attribute enemies (line 373 ran)
    enemies,       \* the instance attribute enemies, when own_enemies
    stuck,         \* self.stuck
    above_ground,  \* self.above_ground
    prevX,         \* self.prevX
    game_area,     \* environment.game_area(): the tile grid of the emulator
    x_position,    \* environment.game_state()["x_position"]
    memory,        \* the emulator memory behind _read_m
    game_over,     \* environment.get_game_over()
    buttons,       \* the buttons the emulator holds down (press without release)
    pc,            \* "idle" (no episode), "playing" (inside play's loop), "crashed"
    raised,        \* the exception that left step, "none" if none
    instances,     \* how many times MarioExpert(...) was constructed
    last,          \* what the last tick did: the decision's rule, return value, ...
    unchanged      \* the grid is the one the last decision cycle saw

vars == <<actions, cls_enemies, own_enemies, enemies, stuck, above_ground, prevX,
          game_area, x_position, memory, game_over, buttons, pc, raised,
          instances, last, unchanged>>

(***************************************************************************)
(* Program constants.                                                      *)
(***************************************************************************)
Rows == 16
Cols == 20
act_freq == 15
FINISH_X == 2450
ADDR_MARIO_X == 49666
ADDR_MARIO_Y == 49665
ADDR_ON_GROUND == 49674
MARIO_OBJ_TABLE == 53504
OBJ_SIZE == 11
OBJ_SLOTS == 10
GOOMBA == 0
NOKOBON == 4
BEE == 41
NO_OBJECT == 255

\* EnemyMap, in the order the enum is iterated
EnemyMap == <<GOOMBA, NOKOBON, BEE>>

Coordinate(x, y) == [tag |-> "Coordinate", x |-> x, y |-> y]
\* the int -1 that get_mario_in_game_area returns when no cell holds the glyph
NotFound == [tag |-> "int"]

(***************************************************************************)
(* MarioController.__init__: the two event tables.                         *)
(***************************************************************************)
valid_actions ==
    [down  |-> [kind |-> "press", button |-> "down"],
     left  |-> [kind |-> "press", button |-> "left"],
     right |-> [kind |-> "press", button |-> "right"],
     up    |-> [kind |-> "press", button |-> "up"],
     jump  |-> [kind |-> "press", button |-> "a"],
     slide |-> [kind |-> "press", button |-> "b"],
     speed |-> [kind |-> "release", button |-> "speed"]]

release_button ==
    [down  |-> [kind |-> "release", button |-> "down"],
     left  |-> [kind |-> "release", button |-> "left"],
     right |-> [kind |-> "release", button |-> "right"],
     up    |-> [kind |-> "release", button |-> "up"],
     jump  |-> [kind |-> "release", button |-> "a"],
     slide |-> [kind |-> "release", button |-> "b"],
     speed |-> [kind |-> "release", button |-> "speed"]]

\* pyboy.send_input: the set of held buttons after the event
send_input(held, event) ==
    IF event.kind = "press" THEN held \cup {event.button}
    ELSE held \ {event.button}

(***************************************************************************)
(* Grid indexing.                                                          *)
(***************************************************************************)
InBounds(r, c) == r \in (0 - Rows)..(Rows - 1) /\ c \in (0 - Cols)..(Cols - 1)

\* the bare level: the floor (code 10) in the last row, nothing elsewhere
Bare(r) == IF r = Rows - 1 THEN 10 ELSE 0

\* game_area[r][c]; a grid is held as the cells that differ from the bare level
At(g, r, c) ==
    LET rc == <<(r + Rows) % Rows, (c + Cols) % Cols>>
    IN  IF rc \in DOMAIN g THEN g[rc] ELSE Bare(rc[1])

\* `probes` is a sequence of <<row, column, code>>, read in order as the
\* operands of a Python `or` chain (or the bodies of a loop that returns True
\* on the first match): "T" at the first matching cell, IndexError at the first
\* read outside the grid, "F" when every cell was read and none matched.
RECURSIVE AnyCell(_, _, _)
AnyCell(g, probes, k) ==
    IF k > Len(probes) THEN "F"
    ELSE IF ~InBounds(probes[k][1], probes[k][2]) THEN "IndexError"
    ELSE IF At(g, probes[k][1], probes[k][2]) = probes[k][3] THEN "T"
    ELSE AnyCell(g, probes, k + 1)

\* the operands of a Python `and` chain: "F" at the first cell that differs
RECURSIVE AllCells(_, _, _)
AllCells(g, probes, k) ==
    IF k > Len(probes) THEN "T"
    ELSE IF ~InBounds(probes[k][1], probes[k][2]) THEN "IndexError"
    ELSE IF At(g, probes[k][1], probes[k][2]) # probes[k][3] THEN "F"
    ELSE AllCells(g, probes, k + 1)

Not(v) == IF v = "T" THEN "F" ELSE IF v = "F" THEN "T" ELSE v

(***************************************************************************)
(* MarioController: perception.                                            *)
(***************************************************************************)
get_mario_pos(mem) == Coordinate(mem[ADDR_MARIO_X] + 1, mem[ADDR_MARIO_Y] + 1)

RECURSIVE ObjScan(_, _, _)
ObjScan(mem, req_obj_type, i) ==
    IF i >= OBJ_SLOTS THEN Coordinate(0, 0)
    ELSE LET obj_addr == MARIO_OBJ_TABLE + (i * OBJ_SIZE) IN
         IF mem[obj_addr] = req_obj_type
         THEN Coordinate(mem[obj_addr + 3], mem[obj_addr + 2] - 1)
         ELSE ObjScan(mem, req_obj_type, i + 1)

get_obj_pos(mem, req_obj_type) == ObjScan(mem, req_obj_type, 0)

\* the cells holding the player glyph, and the first of them in row-major order
GlyphCells(g) == {rc \in DOMAIN g : g[rc] = 1}

FirstGlyph(g) ==
    CHOOSE rc \in GlyphCells(g) :
        \A o \in GlyphCells(g) : rc[1] < o[1] \/ (rc[1] = o[1] /\ rc[2] <= o[2])

get_ground_y(g) == IF GlyphCells(g) = {} THEN -1 ELSE FirstGlyph(g)[1] + 2

get_mario_in_game_area(g) ==
    IF GlyphCells(g) = {} THEN NotFound
    ELSE Coordinate(FirstGlyph(g)[2] + 1, FirstGlyph(g)[1] + 1)

is_mario_jumping(mem) == mem[ADDR_ON_GROUND] = 0

UpProbes(ground_y) ==
    [k \in 1..8 |->
        IF k % 2 = 1 THEN <<ground_y - ((k + 1) \div 2), 14, 15>>
        ELSE <<ground_y - (k \div 2), 13, 15>>]

is_up_clear(g) == Not(AnyCell(g, UpProbes(get_ground_y(g)), 1))

can_jump(g, mem) == IF is_mario_jumping(mem) THEN "F" ELSE is_up_clear(g)

\* get_obstacle_height: [kind |-> "int", v |-> n], [kind |-> "None"] when the
\* loop over the rows ends without a return, or [kind |-> <exception>]
RECURSIVE ObstacleRows(_, _, _, _)
ObstacleRows(g, pos, i, height) ==
    IF i <= 0 THEN [kind |-> "None"]
    ELSE IF pos.x >= Cols THEN ObstacleRows(g, pos, i - 1, height)
    ELSE IF ~InBounds(i, pos.x) THEN [kind |-> "IndexError"]
    ELSE IF At(g, i, pos.x) = 10 \/ At(g, i, pos.x) = 14
         THEN ObstacleRows(g, pos, i - 1, height + 1)
    ELSE [kind |-> "int", v |-> height]

get_obstacle_height(g) ==
    IF get_mario_in_game_area(g) = NotFound THEN [kind |-> "AttributeError"]
    ELSE ObstacleRows(g, get_mario_in_game_area(g), get_mario_in_game_area(g).y, 0)

(***************************************************************************)
(* MarioExpert: the spatial predicates.  `pos` is the value of             *)
(* get_mario_in_game_area; reading pos.x or pos.y of the int -1 raises     *)
(* AttributeError.                                                         *)
(***************************************************************************)
\* is_enemy_near: the list self.enemies after the three appends
RECURSIVE NearScan(_, _, _)
NearScan(mem, list, k) ==
    IF k > Len(EnemyMap) THEN list
    ELSE LET pos == get_obj_pos(mem, EnemyMap[k]) IN
         IF pos.x # 0 /\ pos.y # 0 THEN NearScan(mem, Append(list, pos), k + 1)
         ELSE NearScan(mem, list, k + 1)

is_enemy_near(mem, list) == NearScan(mem, list, 1)

Abs(n) == IF n < 0 THEN 0 - n ELSE n

is_enemy_front(list, mario_pos, safety_distance) ==
    \E k \in 1..Len(list) :
        /\ Abs(mario_pos.y - list[k].y) <= 5
        /\ safety_distance >= list[k].x - mario_pos.x
        /\ list[k].x - mario_pos.x > 0

is_enemy_up(list, mario_pos, safety_distance) ==
    \E k \in 1..Len(list) :
        /\ list[k].y < mario_pos.y
        /\ list[k].x - mario_pos.x <= safety_distance

\* rows y+2 down to y-3 (i = -2..3), columns x+2..x+8 (j = 2..8)
MovingProbes(pos) ==
    [k \in 1..42 |-> <<pos.y - (((k - 1) \div 7) - 2), pos.x + (((k - 1) % 7) + 2), 18>>]

is_moving_enemy_front(g, pos) ==
    IF pos = NotFound THEN "AttributeError" ELSE AnyCell(g, MovingProbes(pos), 1)

BelowProbes(pos) ==
    [k \in 1..15 |-> <<pos.y + ((k - 1) \div 5), pos.x + ((k - 1) % 5), 15>>]

is_enemy_below(g, pos) ==
    IF pos = NotFound THEN "AttributeError" ELSE AnyCell(g, BelowProbes(pos), 1)

ObstacleProbes(pos, distance) ==
    [k \in 1..(4 * distance) |->
        LET i == (k - 1) \div 4
            m == (k - 1) % 4
        IN  <<IF m % 2 = 0 THEN pos.y - 1 ELSE pos.y, pos.x + i, IF m < 2 THEN 10 ELSE 14>>]

is_obstacle_ahead_in_distance(g, pos, distance) ==
    IF pos = NotFound THEN "F" ELSE AnyCell(g, ObstacleProbes(pos, distance), 1)

GapProbes(pos) == [k \in 1..3 |-> <<15, pos.x + (k - 1), 0>>]

\* the test inverted: true where the floor is there
is_gap_ahead_solid(g, pos) ==
    IF pos = NotFound THEN "AttributeError"
    ELSE AnyCell(g, [k \in 1..3 |-> <<15, pos.x + (k - 1), 10>>], 1)

is_gap_ahead(g, pos) ==
    IF pos = NotFound THEN "AttributeError" ELSE AnyCell(g, GapProbes(pos), 1)

JumpableProbes(pos) ==
    << <<pos.y - 3, pos.x + 4, 13>>, <<pos.y - 4, pos.x + 3, 13>>,
       <<pos.y - 3, pos.x + 4, 12>>, <<pos.y - 4, pos.x + 3, 12>>,
       <<pos.y - 3, pos.x + 4, 10>>, <<pos.y - 4, pos.x + 3, 10>>,
       <<pos.y - 2, pos.x + 3, 10>> >>

is_jumpable_block_ahead(g, pos, mem) ==
    IF can_jump(g, mem) # "T" THEN can_jump(g, mem)
    ELSE IF pos = NotFound THEN "AttributeError"
    ELSE AnyCell(g, JumpableProbes(pos), 1)

StairProbes(pos) == << <<pos.y - 1, pos.x + 1, 10>> >>

is_stair(g, pos) ==
    IF pos = NotFound THEN "AttributeError" ELSE AnyCell(g, StairProbes(pos), 1)

StuckProbes(pos) ==
    << <<pos.y - 1, pos.x + 1, 10>>, <<pos.y + 1, pos.x + 1, 10>>,
       <<pos.y, pos.x + 7, 10>> >>

is_stuck(g, pos, mem) ==
    IF can_jump(g, mem) # "T" THEN can_jump(g, mem)
    ELSE IF pos = NotFound THEN "AttributeError"
    ELSE AllCells(g, StuckProbes(pos), 1)

BlockEndingProbes(pos) ==
    << <<pos.y + 1, pos.x + 2, 0>>, <<pos.y + 1, pos.x + 1, 0>>,
       <<pos.y + 1, pos.x, 0>> >>

is_block_ending(g, pos) ==
    IF pos = NotFound THEN "AttributeError" ELSE AnyCell(g, BlockEndingProbes(pos), 1)

JumpSafeProbes(pos) ==
    << <<pos.y, pos.x + 7, 15>>, <<pos.y, pos.x + 8, 15>>, <<pos.y, pos.x + 6, 15>> >>

is_jump_safe(g, pos, mem) ==
    IF can_jump(g, mem) # "T" THEN can_jump(g, mem)
    ELSE IF pos = NotFound THEN "AttributeError"
    ELSE Not(AnyCell(g, JumpSafeProbes(pos), 1))

(***************************************************************************)
(* MarioExpert.choose_action.  `list` is the list self.enemies names when  *)
(* the cycle starts (the instance's own list, or the class-level one while *)
(* the instance has none).  The result records the rule that fired, the    *)
(* actions appended, the value returned ({} for None, {n} for n), the      *)
(* fields as the cycle left them, the list as line 301 saw it, whether     *)
(* line 373 ran, and the exception that ended the cycle ("none" if none).  *)
(***************************************************************************)
Bool(b) == IF b THEN "T" ELSE "F"

\* the conditions of the elif chain that are more than one predicate call; the
\* right operand of `and` is not evaluated when the left one is false
Guard2(list, coord) == Bool(is_enemy_front(list, coord, 40))
Guard3NoLatch(stk, g, pos) == is_stair(g, pos)
Guard3(stk, g, pos) == IF stk THEN is_stair(g, pos) ELSE "F"
Guard4(stk, g, pos, mem) == IF ~stk THEN is_stuck(g, pos, mem) ELSE "F"
Guard6(above, g, pos) == IF above THEN is_block_ending(g, pos) ELSE "F"

choose_action(g, mem, mario_x, list, stk, above, prev) ==
    LET coord == get_mario_pos(mem)
        mario_pos == get_mario_in_game_area(g)
        seen == is_enemy_near(mem, list)
        Raise(exc) ==
            [rule |-> "none", added |-> <<>>, tick_count |-> {}, stuck |-> stk,
             above_ground |-> above, prevX |-> prev, seen |-> seen,
             cleared |-> FALSE, raised |-> exc]
        \* a rule's body ran; then lines 373-375
        Fire(rule, acts, tick, stk2, above2) ==
            IF mario_pos = NotFound
            THEN [rule |-> rule, added |-> acts, tick_count |-> {}, stuck |-> stk2,
                  above_ground |-> above2, prevX |-> prev, seen |-> seen,
                  cleared |-> TRUE, raised |-> "AttributeError"]
            ELSE [rule |-> rule, added |-> acts, tick_count |-> tick, stuck |-> stk2,
                  above_ground |-> FALSE, prevX |-> mario_pos.x, seen |-> seen,
                  cleared |-> TRUE, raised |-> "none"]
        Cond(v, a, b) == IF v = "T" THEN a ELSE IF v = "F" THEN b ELSE Raise(v)
        Rule11 == Fire("11", <<"right">>, {15}, stk, above)
        Rule10 == Cond(is_enemy_below(g, mario_pos),
                       Fire("10", <<"jump">>, {15}, stk, above), Rule11)
        Rule9 == Cond(is_gap_ahead(g, mario_pos),
                      Fire("9", <<"jump">>, {50}, stk, above), Rule10)
        Rule8 == Cond(is_jumpable_block_ahead(g, mario_pos, mem),
                      Fire("8", <<"jump">>, {15}, stk, TRUE), Rule9)
        Height == get_obstacle_height(g)
        Rule7c == Cond(is_jump_safe(g, mario_pos, mem),
                       Fire("7c", <<"jump", "right">>, {30}, stk, above),
                       Fire("7c-left", <<"left">>, {10}, stk, above))
        Rule7b == IF Height.kind = "None" THEN Raise("TypeError")
                  ELSE IF Height.kind # "int" THEN Raise(Height.kind)
                  ELSE IF Height.v > 3 THEN Fire("7b", <<"left">>, {30}, stk, above)
                  ELSE Rule7c
        Rule7body == IF is_enemy_up(seen, coord, 40)
                     THEN Fire("7a", <<"left">>, {30}, stk, above)
                     ELSE Cond(is_obstacle_ahead_in_distance(g, mario_pos, 3),
                               Rule7b, Fire("7d", <<"right">>, {15}, stk, above))
        Rule7 == Cond(is_obstacle_ahead_in_distance(g, mario_pos, 4), Rule7body, Rule8)
        Rule6 == Cond(Guard6(above, g, mario_pos),
                      Fire("6", <<"jump">>, {20}, stk, above), Rule7)
        Rule5 == Cond(is_moving_enemy_front(g, mario_pos),
                      Cond(is_jump_safe(g, mario_pos, mem),
                           Fire("5-jump", <<"jump">>, {15}, stk, above),
                           Fire("5-left", <<"left">>, {30}, stk, above)),
                      Rule6)
        Rule4 == Cond(Guard4(stk, g, mario_pos, mem),
                      Fire("4", <<"left">>, {30}, TRUE, above), Rule5)
        Rule3 == Cond(Guard3(stk, g, mario_pos),
                      Fire("3", <<"left", "jump">>, {}, FALSE, above), Rule4)
        Rule2 == Cond(Guard2(seen, coord),
                      Fire("2", <<"jump">>, {15}, stk, above), Rule3)
    IN  IF mario_x >= FINISH_X THEN Fire("1", <<"right">>, {}, stk, above) ELSE Rule2

(***************************************************************************)
(* MarioController.run_action: the buttons held when it returns, those     *)
(* held during the hold, those it sent a press for, and the number of      *)
(* emulator ticks of the hold.  `tick_count` is {} for None.               *)
(***************************************************************************)
Ticks(tick_count) ==
    IF tick_count = {} THEN act_freq ELSE CHOOSE n \in tick_count : TRUE

run_action(held, action, tick_count) ==
    LET pressed == IF action = "jump"
                   THEN send_input(send_input(held, valid_actions[action]),
                                   valid_actions["right"])
                   ELSE send_input(held, valid_actions[action])
        released == IF action = "jump"
                    THEN send_input(send_input(pressed, release_button[action]),
                                    valid_actions["right"])
                    ELSE send_input(pressed, release_button[action])
    IN  [buttons |-> released, during |-> pressed, ticks |-> Ticks(tick_count),
         pressed |-> {valid_actions[action].button}
                        \cup (IF action = "jump" THEN {valid_actions["right"].button} ELSE {})]

(***************************************************************************)
(* The inputs: tile grids and emulator memories.  A grid has the floor     *)
(* (code 10) in its last row, the player glyph (code 1) in at most one     *)
(* cell, a wall of `h` blocks in the column ahead of the player, and the   *)
(* cells of a set of features placed relative to the player position       *)
(* (x, y) = (glyph column + 1, glyph row + 1).                             *)
(***************************************************************************)
MaxWall == 4          \* the walls are 0..MaxWall blocks high
MaxFeatures == 2      \* features combined in one grid of the decision inputs
MaxLoopFeatures == 1  \* features combined in one grid of the control loop
MaxInstances == 2     \* instances of MarioExpert constructed in one process

FeatureNames ==
    {"stair", "boxed", "bee", "spike", "block", "farblock", "climb", "pit",
     "partpit", "below", "upspike"}

FeatureCells(f, x, y) ==
    CASE f = "stair"    -> {<<y - 1, x + 1, 10>>}
      [] f = "boxed"    -> {<<y - 1, x + 1, 10>>, <<y + 1, x + 1, 10>>, <<y, x + 7, 10>>}
      [] f = "bee"      -> {<<y - 2, x + 4, 18>>}
      [] f = "spike"    -> {<<y, x + 6, 15>>}
      [] f = "block"    -> {<<y, x + 1, 14>>}
      [] f = "farblock" -> {<<y - 1, x + 3, 10>>}
      [] f = "climb"    -> {<<y - 3, x + 4, 13>>}
      [] f = "pit"      -> {<<Rows - 1, x, 0>>, <<Rows - 1, x + 1, 0>>, <<Rows - 1, x + 2, 0>>}
      [] f = "partpit"  -> {<<Rows - 1, x + 2, 0>>}
      [] f = "below"    -> {<<y + 1, x + 2, 15>>}
      [] f = "upspike"  -> {<<y - 1, 13, 15>>}

SetMax(S) == CHOOSE n \in S : \A m \in S : m <= n

\* `cell` is <<row, column>> of the glyph; `shown` tells whether it is drawn
MkGrid(cell, shown, feats, h) ==
    LET x == cell[2] + 1
        y == cell[1] + 1
        ov == UNION {FeatureCells(f, x, y) : f \in feats}
                  \cup {<<y - k, x, 10>> : k \in 0..(h - 1)}
        Code(rc) == IF shown /\ rc = cell THEN 1
                    ELSE SetMax({o[3] : o \in {q \in ov : q[1] = rc[1] /\ q[2] = rc[2]}})
        touched == {<<o[1], o[2]>> : o \in ov} \cup (IF shown THEN {cell} ELSE {})
        dom == {rc \in touched :
                    /\ rc[1] \in 0..(Rows - 1)
                    /\ rc[2] \in 0..(Cols - 1)
                    /\ Code(rc) # Bare(rc[1])}
    IN  [rc \in dom |-> Code(rc)]

Addrs ==
    {ADDR_MARIO_X, ADDR_MARIO_Y, ADDR_ON_GROUND}
        \cup {MARIO_OBJ_TABLE + (i * OBJ_SIZE) + k : i \in 0..(OBJ_SLOTS - 1), k \in {0, 2, 3}}

Obj(type, x, y) == [type |-> type, x |-> x, y |-> y]
NoObj == Obj(NO_OBJECT, 0, 0)

\* the memory with the player at raw (mx, my), the on-ground flag, and the object
\* table holding `first` in slot 0 and `lastobj` in slot 9, the other slots free
MkMemory(mx, my, flag, first, lastobj) ==
    [a \in Addrs |->
        IF a = ADDR_MARIO_X THEN mx
        ELSE IF a = ADDR_MARIO_Y THEN my
        ELSE IF a = ADDR_ON_GROUND THEN flag
        ELSE LET i == (a - MARIO_OBJ_TABLE) \div OBJ_SIZE
                 k == (a - MARIO_OBJ_TABLE) % OBJ_SIZE
                 o == IF i = 0 THEN first
                      ELSE IF i = OBJ_SLOTS - 1 THEN lastobj ELSE NoObj
             IN  IF k = 0 THEN o.type ELSE IF k = 2 THEN o.y ELSE o.x]

PlainMemory == MkMemory(50, 100, 1, NoObj, NoObj)

Scene(g, mario_x, mem) == [game_area |-> g, x_position |-> mario_x, memory |-> mem]

Subsets(S, n) == {T \in SUBSET S : Cardinality(T) <= n}

PlayerCell == <<12, 2>>     \* the player stands two rows above the floor
EdgeCell == <<12, 13>>      \* the same, near the right edge of the grid
TopCell == <<3, 2>>         \* high in the grid
CeilingCell == <<1, 2>>     \* next to the top row
BottomCell == <<15, 2>>     \* in the last row

GoombaFront == Obj(GOOMBA, 80, 102)
GoombaAbove == Obj(GOOMBA, 60, 50)
NokobonOnAxis == Obj(NOKOBON, 0, 60)
BeeTopRow == Obj(BEE, 70, 1)
BeeFar == Obj(BEE, 200, 101)
Objs == {NoObj, GoombaFront, GoombaAbove, NokobonOnAxis, BeeTopRow, BeeFar}

\* the scenes of the control loop
LoopGrids ==
    {MkGrid(PlayerCell, TRUE, fs, 0) : fs \in Subsets(FeatureNames, MaxLoopFeatures)}
        \cup {MkGrid(PlayerCell, TRUE, {}, h) : h \in 1..MaxWall}
        \cup {MkGrid(PlayerCell, FALSE, {}, 0), MkGrid(EdgeCell, TRUE, {}, 0)}

LoopScenes ==
    {Scene(g, 0, PlainMemory) : g \in LoopGrids}
        \cup {Scene(MkGrid(PlayerCell, TRUE, {}, 0), 0, MkMemory(50, 100, 1, GoombaFront, NoObj)),
              Scene(MkGrid(PlayerCell, TRUE, {}, 0), FINISH_X, PlainMemory),
              Scene(MkGrid(PlayerCell, FALSE, {}, 0), FINISH_X, PlainMemory),
              Scene(MkGrid(PlayerCell, TRUE, {"boxed"}, 0), 0, MkMemory(50, 100, 0, NoObj, NoObj))}

\* the inputs of one decision cycle
DecideGrids ==
    {MkGrid(c, TRUE, fs, h) :
        c \in {PlayerCell, EdgeCell, TopCell, CeilingCell, BottomCell},
        fs \in Subsets(FeatureNames, MaxFeatures), h \in 0..MaxWall}
        \cup {MkGrid(PlayerCell, FALSE, fs, h) :
                fs \in Subsets(FeatureNames, MaxFeatures), h \in 0..MaxWall}

EntityGrids ==
    {MkGrid(c, TRUE, fs, 0) : c \in {PlayerCell, EdgeCell}, fs \in {{}, {"block"}, {"pit"}}}
        \cup {MkGrid(PlayerCell, FALSE, {}, 0)}

EntityMemories ==
    {MkMemory(50, 100, flag, a, b) : flag \in {0, 1}, a \in Objs, b \in Objs}

DecideScenes ==
    {Scene(g, 0, MkMemory(50, 100, flag, NoObj, NoObj)) : g \in DecideGrids, flag \in {0, 1}}
        \cup {Scene(g, mario_x, mem) :
                g \in EntityGrids, mario_x \in {0, FINISH_X}, mem \in EntityMemories}

\* what the class-level list can hold when an instance starts its first cycle
LeftOver == {<<>>, <<Coordinate(80, 101)>>}

\* `last` before the instance's first tick.  kind: what the last tick was;
\* rule, tick_count, added, seen: the last decision cycle's rule, return value,
\* appended actions and entity list; same: whether that cycle saw the grid the
\* cycle before it saw; action, ticks, during, pressed: the last dispatch
NoTick ==
    [kind |-> "none", rule |-> "none", tick_count |-> {}, added |-> <<>>,
     seen |-> <<>>, same |-> FALSE, action |-> "none", ticks |-> 0,
     during |-> {}, pressed |-> {}]

(***************************************************************************)
(* The state after MarioExpert(...) is constructed for the first time.     *)
(***************************************************************************)
Init ==
    /\ actions = <<>>
    /\ cls_enemies = <<>>
    /\ own_enemies = FALSE
    /\ enemies = <<>>
    /\ stuck = FALSE
    /\ above_ground = FALSE
    /\ prevX = -1
    /\ \E s \in LoopScenes :
        /\ game_area = s.game_area
        /\ x_position = s.x_position
        /\ memory = s.memory
    /\ game_over = FALSE
    /\ buttons = {}
    /\ pc = "idle"
    /\ raised = "none"
    /\ instances = 1
    /\ last = NoTick
    /\ unchanged = FALSE

\* the list self.enemies names
SelfEnemies == IF own_enemies THEN enemies ELSE cls_enemies

\* the decision branch of step (line 388): one call of choose_action
Decide ==
    \E r \in {choose_action(game_area, memory, x_position, SelfEnemies, stuck,
                             above_ground, prevX)} :
        /\ actions' = actions \o r.added
        /\ stuck' = r.stuck
        /\ above_ground' = r.above_ground
        /\ prevX' = r.prevX
        /\ own_enemies' = (own_enemies \/ r.cleared)
        /\ enemies' = IF r.cleared THEN <<>>
                      ELSE IF own_enemies THEN r.seen ELSE enemies
        /\ cls_enemies' = IF own_enemies THEN cls_enemies ELSE r.seen
        /\ raised' = r.raised
        /\ pc' = IF r.raised = "none" THEN pc ELSE "crashed"
        /\ last' = [kind |-> "decide", rule |-> r.rule, tick_count |-> r.tick_count,
                    added |-> r.added, seen |-> r.seen, same |-> unchanged,
                    action |-> "none", ticks |-> 0, during |-> {}, pressed |-> {}]
        /\ unchanged' = TRUE
        /\ UNCHANGED <<game_area, x_position, memory, game_over, buttons, instances>>

\* step's local tick_count when line 391 runs: None, as line 385 set it (only
\* the other branch assigns it)
step_tick_count == {}

\* line 391 with pop() for pop(0): the newest action is taken, not the oldest
ExecutePopLast ==
    \E ran \in {run_action(buttons, actions[Len(actions)], step_tick_count)} :
        /\ actions' = SubSeq(actions, 1, Len(actions) - 1)
        /\ buttons' = ran.buttons
        /\ \E s \in LoopScenes :
            /\ game_area' = s.game_area
            /\ x_position' = s.x_position
            /\ memory' = s.memory
        /\ game_over' \in BOOLEAN
        /\ last' = [last EXCEPT !.kind = "execute", !.action = actions[Len(actions)],
                                !.ticks = ran.ticks, !.during = ran.during,
                                !.pressed = ran.pressed]
        /\ unchanged' = (unchanged /\ game_area' = game_area)
        /\ UNCHANGED <<cls_enemies, own_enemies, enemies, stuck, above_ground, prevX,
                       pc, raised, instances>>

\* line 391 followed by `self.stuck = False`: the dispatch clears the flag
ExecuteUnsticks ==
    \E ran \in {run_action(buttons, Head(actions), step_tick_count)} :
        /\ actions' = Tail(actions)
        /\ buttons' = ran.buttons
        /\ \E s \in LoopScenes :
            /\ game_area' = s.game_area
            /\ x_position' = s.x_position
            /\ memory' = s.memory
        /\ game_over' \in BOOLEAN
        /\ last' = [last EXCEPT !.kind = "execute", !.action = Head(actions),
                                !.ticks = ran.ticks, !.during = ran.during,
                                !.pressed = ran.pressed]
        /\ unchanged' = (unchanged /\ game_area' = game_area)
        /\ stuck' = FALSE
        /\ UNCHANGED <<cls_enemies, own_enemies, enemies, above_ground, prevX,
                       pc, raised, instances>>

\* the execution branch of step (line 391): pop the head and run it with the
\* local tick_count of line 385; the emulator ticks, so the scene moves on
Execute ==
    \E ran \in {run_action(buttons, Head(actions), step_tick_count)} :
        /\ actions' = Tail(actions)
        /\ buttons' = ran.buttons
        /\ \E s \in LoopScenes :
            /\ game_area' = s.game_area
            /\ x_position' = s.x_position
            /\ memory' = s.memory
        /\ game_over' \in BOOLEAN
        /\ last' = [last EXCEPT !.kind = "execute", !.action = Head(actions),
                                !.ticks = ran.ticks, !.during = ran.during,
                                !.pressed = ran.pressed]
        /\ unchanged' = (unchanged /\ game_area' = game_area)
        /\ UNCHANGED <<cls_enemies, own_enemies, enemies, stuck, above_ground, prevX,
                       pc, raised, instances>>

\* line 386 with `<= 1` for `== 0`: a cycle runs while an action is still queued
StepRefillEarly ==
    /\ pc = "playing"
    /\ ~game_over
    /\ IF Len(actions) <= 1 THEN Decide ELSE Execute

\* MarioExpert.step, called by play's loop while the game is not over
Step ==
    /\ pc = "playing"
    /\ ~game_over
    /\ IF Len(actions) = 0 THEN Decide ELSE Execute

\* MarioExpert.play up to its loop: the environment is reset
Play ==
    /\ pc = "idle"
    /\ pc' = "playing"
    /\ \E s \in LoopScenes :
        /\ game_area' = s.game_area
        /\ x_position' = s.x_position
        /\ memory' = s.memory
    /\ game_over' = FALSE
    /\ unchanged' = (unchanged /\ game_area' = game_area)
    /\ UNCHANGED <<actions, cls_enemies, own_enemies, enemies, stuck, above_ground,
                   prevX, buttons, raised, instances, last>>

\* MarioExpert.play from the end of its loop: the episode is over
Finish ==
    /\ pc = "playing"
    /\ game_over
    /\ pc' = "idle"
    /\ UNCHANGED <<actions, cls_enemies, own_enemies, enemies, stuck, above_ground,
                   prevX, game_area, x_position, memory, game_over, buttons, raised,
                   instances, last, unchanged>>

\* MarioExpert.__init__: another instance, with its own environment; the class
\* attributes stay as they are
Construct ==
    /\ pc = "idle"
    /\ instances < MaxInstances
    /\ instances' = instances + 1
    /\ own_enemies' = FALSE
    /\ enemies' = <<>>
    /\ stuck' = FALSE
    /\ above_ground' = FALSE
    /\ prevX' = -1
    /\ buttons' = {}
    /\ last' = NoTick
    /\ unchanged' = FALSE
    /\ UNCHANGED <<actions, cls_enemies, game_area, x_position, memory, game_over,
                   pc, raised>>

Next == Step \/ Play \/ Finish \/ Construct

Spec == Init /\ [][Next]_vars

\* the control loop with its scheduling: play's loop calls step again and
\* again while the game is not over and no exception has ended it
SpecLoop == Spec /\ WF_vars(Step)

(***************************************************************************)
(* An episode on a scene that stays as it is: the emulator's ticks change  *)
(* neither the grid nor the memory read by the agent, and the game is not  *)
(* over.  play's loop calls step again and again while the game is not     *)
(* over and no exception has ended it, hence the fairness condition.       *)
(***************************************************************************)
HeldTick ==
    /\ Step
    /\ game_area' = game_area
    /\ x_position' = x_position
    /\ memory' = memory
    /\ game_over' = FALSE

NextHeld == HeldTick \/ Play

SpecHeld == Init /\ [][NextHeld]_vars /\ WF_vars(HeldTick)

(***************************************************************************)
(* One decision cycle on its own: every input of DecideScenes, either      *)
(* value of stuck, and a class-level list that is empty or left over; the  *)
(* only step is the decision tick.                                         *)
(***************************************************************************)
InitDecide ==
    /\ actions = <<>>
    /\ cls_enemies \in LeftOver
    /\ own_enemies = FALSE
    /\ enemies = <<>>
    /\ stuck \in BOOLEAN
    /\ above_ground = FALSE
    /\ prevX = -1
    /\ \E s \in DecideScenes :
        /\ game_area = s.game_area
        /\ x_position = s.x_position
        /\ memory = s.memory
    /\ game_over = FALSE
    /\ buttons = {}
    /\ pc = "playing"
    /\ raised = "none"
    /\ instances = 1
    /\ last = NoTick
    /\ unchanged = FALSE

DecideOnce == last.kind = "none" /\ Step

SpecDecide == InitDecide /\ [][DecideOnce]_vars

(***************************************************************************)
(* The claims.  A tick is a step of the loop of play: a decision tick when *)
(* the queue is empty, an execution tick otherwise.                        *)
(***************************************************************************)
DecisionTick == pc = "playing" /\ ~game_over /\ Len(actions) = 0
ExecutionTick == pc = "playing" /\ ~game_over /\ Len(actions) > 0

\* what the coming decision cycle reads
CyclePos == get_mario_in_game_area(game_area)
CycleCoord == get_mario_pos(memory)
CycleSeen == is_enemy_near(memory, SelfEnemies)

\* the conditions of rules 1 to 6 all evaluate to false
NoneOf1to6 ==
    /\ x_position < FINISH_X
    /\ Guard2(CycleSeen, CycleCoord) = "F"
    /\ Guard3(stuck, game_area, CyclePos) = "F"
    /\ Guard4(stuck, game_area, CyclePos, memory) = "F"
    /\ is_moving_enemy_front(game_area, CyclePos) = "F"
    /\ Guard6(above_ground, game_area, CyclePos) = "F"

\* C1: every tick either removes exactly the head of a non-empty queue and
\* dispatches it, without a decision cycle, or (queue empty) runs one decision
\* cycle that dispatches nothing and lengthens the queue by the number of
\* actions its rule produced, which is at least 1.
C1_TickAccounting ==
    [][ /\ ExecutionTick =>
            /\ actions' = Tail(actions)
            /\ Len(actions') = Len(actions) - 1
            /\ last'.kind = "execute"
            /\ last'.action = Head(actions)
            /\ last'.rule = last.rule
        /\ DecisionTick =>
            /\ last'.kind = "decide"
            /\ buttons' = buttons
            /\ Len(actions') = Len(actions) + Len(last'.added)
            /\ Len(last'.added) >= 1
      ]_vars

\* C2: totality: whatever the grid, the player position (the glyph may be
\* missing), the entities and the agent state, a decision cycle completes
\* normally and leaves at least one action in the queue.
C2_Totality == last.kind = "decide" => (raised = "none" /\ Len(actions) >= 1)

\* C3: an action is held for the duration the rule that enqueued it returned;
\* the default act_freq is used only when the rule returned none.
C3_HoldDuration == last.kind = "execute" => last.ticks = Ticks(last.tick_count)

\* C4: when run_action returns, every button it pressed is released; a jump
\* holds jump and right together and releases both.
C4_PressReleasePaired ==
    last.kind = "execute" =>
        /\ last.pressed \cap buttons = {}
        /\ last.action = "jump" => {"a", "right"} \subseteq last.during

\* C5: stuck hysteresis.  Within one instance stuck is set only by rule 4 and
\* cleared only by rule 3; rule 3 fires only when stuck is set and the recovery
\* signature (is_stair) is present; and the decision cycle that follows a
\* rule-4 cycle on an unchanged grid does not fire rule 4 again and still
\* enqueues at least one action.
C5_StuckHysteresis ==
    [][ /\ (instances' = instances /\ stuck' # stuck) =>
            (DecisionTick /\ last'.rule = (IF stuck' THEN "4" ELSE "3"))
        /\ (DecisionTick /\ last'.rule = "3") =>
            (stuck /\ is_stair(game_area, CyclePos) = "T")
        /\ (DecisionTick /\ last.rule = "4" /\ unchanged) =>
            (last'.rule # "4" /\ Len(last'.added) >= 1 /\ Len(actions') >= 1)
      ]_vars

\* C5's case: a decision cycle on the unchanged boxed-in grid, with stuck set by
\* rule 4 before it, fired rule 3 and not rule 4
C5_Witness ==
    /\ last.kind = "decide"
    /\ last.same
    /\ last.rule = "3"
    /\ ~stuck
    /\ is_stuck(game_area, CyclePos, memory) = "T"

\* C6: after a decision cycle above_ground (just-ascended) is false unless rule
\* 8 fired in it, and after a rule-8 cycle it stays true until the next
\* decision cycle starts.
C6_AscendedCarryOver ==
    /\ last.rule = "8" => above_ground
    /\ (last.kind = "decide" /\ raised = "none" /\ last.rule # "8") => ~above_ground

\* C7: when an episode starts (play is called) and when an instance is
\* constructed, the queue and the entity list are empty and stuck and
\* above_ground are false.
C7_EpisodeIsolation ==
    [][ ((pc = "idle" /\ pc' = "playing") \/ instances' # instances) =>
            /\ actions' = <<>>
            /\ SelfEnemies' = <<>>
            /\ ~stuck'
            /\ ~above_ground'
      ]_vars

HasSlot(mem, type) ==
    \E i \in 0..(OBJ_SLOTS - 1) : mem[MARIO_OBJ_TABLE + (i * OBJ_SIZE)] = type

\* C8: get_obj_pos gives (0,0) for a kind that no slot of the object table
\* holds, and a decision cycle records every tracked kind whose position is not
\* (0,0) in its entity list.
C8_AbsenceSentinel ==
    last.kind = "decide" =>
        \A k \in 1..Len(EnemyMap) :
            /\ ~HasSlot(memory, EnemyMap[k]) =>
                    get_obj_pos(memory, EnemyMap[k]) = Coordinate(0, 0)
            /\ get_obj_pos(memory, EnemyMap[k]) # Coordinate(0, 0) =>
                    \E i \in 1..Len(last.seen) :
                        last.seen[i] = get_obj_pos(memory, EnemyMap[k])

\* the contiguous block rows in the player's column, from the player row upward
IsBlock(g, r, c) ==
    r \in 0..(Rows - 1) /\ c \in 0..(Cols - 1) /\ At(g, r, c) \in {10, 14}

BlockRowsAhead(g, pos) ==
    Cardinality({k \in 0..Rows : \A j \in 0..k : IsBlock(g, pos.y - j, pos.x)})

\* the cycle gets to the height test of rule 7: no rule before 7 fires, a block
\* lies within 4 and within 3 columns ahead, no entity is above
ReachesHeightTest ==
    /\ NoneOf1to6
    /\ is_obstacle_ahead_in_distance(game_area, CyclePos, 4) = "T"
    /\ ~is_enemy_up(CycleSeen, CycleCoord, 40)
    /\ is_obstacle_ahead_in_distance(game_area, CyclePos, 3) = "T"

\* C9: at the height test, more than 3 contiguous block rows ahead give left;
\* at most 3 with a safe jump give jump then right.
C9_HeightTieBreak ==
    [][ (DecisionTick /\ ReachesHeightTest) =>
            /\ BlockRowsAhead(game_area, CyclePos) > 3 => last'.added = <<"left">>
            /\ (/\ BlockRowsAhead(game_area, CyclePos) <= 3
                /\ is_jump_safe(game_area, CyclePos, memory) = "T") =>
                    last'.added = <<"jump", "right">>
      ]_vars

\* the floor row is empty at the next three forward columns
GapAhead3 ==
    /\ CyclePos # NotFound
    /\ \A i \in 0..2 :
        /\ CyclePos.x + i \in 0..(Cols - 1)
        /\ At(game_area, Rows - 1, CyclePos.x + i) = 0

ObstacleAndGap ==
    /\ NoneOf1to6
    /\ is_obstacle_ahead_in_distance(game_area, CyclePos, 4) = "T"
    /\ is_gap_ahead(game_area, CyclePos) = "T"

\* C11: priority ordering: on a grid on which the obstacle condition of rule 7
\* and the gap condition of rule 9 both hold and no rule before 7 matches, the
\* cycle enqueues exactly the actions of a branch of rule 7 (left, jump then
\* right, or right) and not the gap rule's jump with hold 50.
C11_ObstacleBeforeGap ==
    [][ (DecisionTick /\ ObstacleAndGap) =>
            /\ last'.rule \in {"7a", "7b", "7c", "7c-left", "7d"}
            /\ last'.added \in {<<"left">>, <<"jump", "right">>, <<"right">>}
            /\ actions' = last'.added
            /\ last'.tick_count # {50}
      ]_vars

\* C12: determinism: the actions a decision cycle enqueues, the hold it returns
\* and the stuck, above_ground and prevX it leaves are those of the run of
\* choose_action on the same grid, memory, x position and fields that starts
\* with no entity observation left behind: what an earlier cycle or another
\* instance left in the entity list has no influence.
C12_Determinism ==
    [][ DecisionTick =>
            \E twin \in {choose_action(game_area, memory, x_position, <<>>, stuck,
                                       above_ground, prevX)} :
                /\ last'.added = twin.added
                /\ last'.tick_count = twin.tick_count
                /\ raised' = twin.raised
                /\ stuck' = twin.stuck
                /\ above_ground' = twin.above_ground
                /\ prevX' = twin.prevX
      ]_vars

\* C13: FIFO order.  A decision cycle appends its actions at the tail, an
\* execution tick dispatches the head and leaves the rest in order, and while
\* the queue is not empty no decision cycle runs; so after rule 3 the next two
\* ticks dispatch left then jump, and after rule 7c jump then right.
C13_FifoOrder ==
    [][ /\ DecisionTick => actions' = actions \o last'.added
        /\ (DecisionTick /\ last'.rule = "3") => actions' = <<"left", "jump">>
        /\ (DecisionTick /\ last'.rule = "7c") => actions' = <<"jump", "right">>
        /\ actions # <<>> =>
            \/ actions' = actions /\ last'.kind # "decide"
            \/ /\ ExecutionTick
               /\ last'.kind = "execute"
               /\ last'.action = Head(actions)
               /\ actions' = Tail(actions)
        /\ (ExecutionTick /\ last.rule \in {"3", "7c"} /\ last.kind = "decide") =>
            /\ last'.action = last.added[1]
            /\ actions' = <<last.added[2]>>
        /\ (ExecutionTick /\ last.rule \in {"3", "7c"} /\ last.kind = "execute") =>
            /\ last.action = last.added[1]
            /\ last'.action = last.added[2]
            /\ actions' = <<>>
      ]_vars

\* C13's case: the second action of rule 3's pair has just been dispatched
C13_Witness ==
    /\ last.kind = "execute"
    /\ last.rule = "3"
    /\ last.added = <<"left", "jump">>
    /\ last.action = "jump"
    /\ actions = <<>>

\* the actions of `added` not yet dispatched: a suffix of it
IsSuffix(q, added) ==
    \E k \in 0..Len(added) : q = SubSeq(added, k + 1, Len(added))

\* C14: single producer: a decision cycle runs only when the queue is empty, the
\* queue holds nothing but the not yet dispatched actions of the last decision
\* cycle, and its length never exceeds 2.
C14_SingleProducer ==
    [][ /\ (last' # last /\ last'.kind = "decide") => actions = <<>>
        /\ last'.kind # "none" => IsSuffix(actions', last'.added)
        /\ Len(actions) <= 2
        /\ Len(actions') <= 2
      ]_vars

\* C14's case: a decision cycle has just filled the empty queue with two actions
C14_Witness == last.kind = "decide" /\ Len(actions) = 2 /\ actions = last.added

(***************************************************************************)
(* The cells a decision cycle indexes.  An `or` chain or a returning loop  *)
(* reads its cells in order up to the first match, an `and` chain up to    *)
(* the first mismatch; the read that raises IndexError is the last one.    *)
(***************************************************************************)
RECURSIVE ReadsAny(_, _, _)
ReadsAny(g, probes, k) ==
    IF k > Len(probes) THEN {}
    ELSE IF ~InBounds(probes[k][1], probes[k][2]) THEN {<<probes[k][1], probes[k][2]>>}
    ELSE IF At(g, probes[k][1], probes[k][2]) = probes[k][3]
         THEN {<<probes[k][1], probes[k][2]>>}
    ELSE {<<probes[k][1], probes[k][2]>>} \cup ReadsAny(g, probes, k + 1)

RECURSIVE ReadsAll(_, _, _)
ReadsAll(g, probes, k) ==
    IF k > Len(probes) THEN {}
    ELSE IF ~InBounds(probes[k][1], probes[k][2]) THEN {<<probes[k][1], probes[k][2]>>}
    ELSE IF At(g, probes[k][1], probes[k][2]) # probes[k][3]
         THEN {<<probes[k][1], probes[k][2]>>}
    ELSE {<<probes[k][1], probes[k][2]>>} \cup ReadsAll(g, probes, k + 1)

\* get_obstacle_height: the rows of column pos.x it reads, from row i upward
RECURSIVE HeightReads(_, _, _)
HeightReads(g, pos, i) ==
    IF i <= 0 THEN {}
    ELSE IF pos.x >= Cols THEN HeightReads(g, pos, i - 1)
    ELSE IF ~InBounds(i, pos.x) THEN {<<i, pos.x>>}
    ELSE IF At(g, i, pos.x) = 10 \/ At(g, i, pos.x) = 14
         THEN {<<i, pos.x>>} \cup HeightReads(g, pos, i - 1)
    ELSE {<<i, pos.x>>}

\* can_jump: nothing when airborne, else the band of is_up_clear
CanJumpReads(g, mem) ==
    IF is_mario_jumping(mem) THEN {} ELSE ReadsAny(g, UpProbes(get_ground_y(g)), 1)

\* the cells choose_action indexes on a grid that shows the glyph, rule by rule
\* down the elif chain; a condition that is not reached reads nothing
CycleReads(g, mem, mario_x, list, stk, above) ==
    LET pos == get_mario_in_game_area(g)
        coord == get_mario_pos(mem)
        seen == is_enemy_near(mem, list)
        Guarded(reads, probes) ==
            reads \cup (IF can_jump(g, mem) = "T" THEN probes ELSE {})
        JumpSafe == Guarded(CanJumpReads(g, mem), ReadsAny(g, JumpSafeProbes(pos), 1))
        R10 == ReadsAny(g, BelowProbes(pos), 1)
        R9 == ReadsAny(g, GapProbes(pos), 1)
                \cup (IF is_gap_ahead(g, pos) = "F" THEN R10 ELSE {})
        R8 == Guarded(CanJumpReads(g, mem), ReadsAny(g, JumpableProbes(pos), 1))
                \cup (IF is_jumpable_block_ahead(g, pos, mem) = "F" THEN R9 ELSE {})
        Height == get_obstacle_height(g)
        R7b == HeightReads(g, pos, pos.y)
                \cup (IF Height.kind = "int" /\ Height.v <= 3 THEN JumpSafe ELSE {})
        R7body == IF is_enemy_up(seen, coord, 40) THEN {}
                  ELSE ReadsAny(g, ObstacleProbes(pos, 3), 1)
                        \cup (IF is_obstacle_ahead_in_distance(g, pos, 3) = "T"
                              THEN R7b ELSE {})
        R7 == ReadsAny(g, ObstacleProbes(pos, 4), 1)
                \cup (IF is_obstacle_ahead_in_distance(g, pos, 4) = "T" THEN R7body
                      ELSE IF is_obstacle_ahead_in_distance(g, pos, 4) = "F" THEN R8
                      ELSE {})
        R6 == IF ~above THEN R7
              ELSE ReadsAny(g, BlockEndingProbes(pos), 1)
                    \cup (IF is_block_ending(g, pos) = "F" THEN R7 ELSE {})
        R5 == ReadsAny(g, MovingProbes(pos), 1)
                \cup (IF is_moving_enemy_front(g, pos) = "T" THEN JumpSafe
                      ELSE IF is_moving_enemy_front(g, pos) = "F" THEN R6
                      ELSE {})
        R4 == IF stk THEN R5
              ELSE Guarded(CanJumpReads(g, mem), ReadsAll(g, StuckProbes(pos), 1))
                    \cup (IF is_stuck(g, pos, mem) = "F" THEN R5 ELSE {})
        R3 == IF ~stk THEN R4
              ELSE ReadsAny(g, StairProbes(pos), 1)
                    \cup (IF is_stair(g, pos) = "F" THEN R4 ELSE {})
    IN  IF mario_x >= FINISH_X \/ Guard2(seen, coord) = "T" THEN {} ELSE R3

InGrid(r, c) == r \in 0..(Rows - 1) /\ c \in 0..(Cols - 1)

\* C15: bounds safety: when the player position is inside the grid, every cell
\* the decision cycle indexes has its row in 0..15 and its column in 0..19
\* (no read past the last row or column, none at a negative index), and the
\* cycle does not end in IndexError.
C15_BoundsSafety ==
    [][ (/\ DecisionTick
         /\ CyclePos # NotFound
         /\ InGrid(CyclePos.y, CyclePos.x)) =>
            /\ raised' # "IndexError"
            /\ \A rc \in CycleReads(game_area, memory, x_position, SelfEnemies, stuck,
                                    above_ground) : InGrid(rc[1], rc[2])
      ]_vars

\* the stated contract of the two entity checks
FrontContract(list, mario_pos, safety_distance) ==
    \E k \in 1..Len(list) :
        /\ Abs(list[k].y - mario_pos.y) <= 5
        /\ list[k].x - mario_pos.x \in 1..safety_distance

UpContract(list, mario_pos, safety_distance) ==
    \E k \in 1..Len(list) :
        /\ Abs(list[k].y - mario_pos.y) <= 5
        /\ list[k].y < mario_pos.y
        /\ Abs(list[k].x - mario_pos.x) <= safety_distance

SafetyDistances == {0, 20, 40}

\* C16: is_enemy_front and is_enemy_up agree with their contract on the entity
\* list and player position of every decision cycle, for each safety distance;
\* so rule 2 fires exactly when an entity is within 5 rows and 1..40 columns
\* ahead, and rule 7, once entered, takes its branch `left` for an entity above
\* exactly when an entity is within 5 rows, strictly above and within 40 columns.
C16_HazardNearContract ==
    [][ (DecisionTick /\ x_position < FINISH_X) =>
            /\ \A sd \in SafetyDistances :
                /\ is_enemy_front(CycleSeen, CycleCoord, sd)
                        = FrontContract(CycleSeen, CycleCoord, sd)
                /\ is_enemy_up(CycleSeen, CycleCoord, sd)
                        = UpContract(CycleSeen, CycleCoord, sd)
            /\ (last'.rule = "2") = FrontContract(CycleSeen, CycleCoord, 40)
            /\ (NoneOf1to6 /\ is_obstacle_ahead_in_distance(game_area, CyclePos, 4) = "T") =>
                    ((last'.rule = "7a") = UpContract(CycleSeen, CycleCoord, 40))
      ]_vars

\* the grid and memory show the stuck signature
StuckShown == is_stuck(game_area, CyclePos, memory) = "T"

\* C17: no stuck/unstuck livelock: an episode that keeps running on one
\* unchanged scene showing the stuck signature does not go on for ever with
\* rules 3 and 4 as the only rules that fire: again and again a decision cycle
\* fires another rule.
C17_NoStuckLivelock ==
    []<>~(/\ pc = "playing"
          /\ StuckShown
          /\ last.rule \in {"3", "4"})

\* the fields a decision cycle owns
AgentState == <<stuck, above_ground, prevX, SelfEnemies, cls_enemies>>

\* C18: frame condition: an execution tick leaves stuck, above_ground, prevX
\* and the entity list as they are and only removes the head of the queue; for
\* one instance these fields change in a decision tick and in no other step.
C18_ExecutionFrame ==
    [][ /\ ExecutionTick =>
            /\ AgentState' = AgentState
            /\ actions' = Tail(actions)
        /\ (instances' = instances /\ AgentState' # AgentState) =>
            (DecisionTick /\ last'.kind = "decide")
      ]_vars

\* C18's case: an action has been dispatched while stuck was set and prevX
\* held a position
C18_Witness ==
    /\ last.kind = "execute"
    /\ last.rule = "4"
    /\ last.action = "left"
    /\ stuck
    /\ prevX # -1

\* C19: progress of the control loop: a decision tick leaves the loop about to
\* run an execution tick and the tick after a decision tick is an execution
\* tick; every action in the queue is dispatched unless the game is over first;
\* and once the game is over nothing is decided or dispatched.
C19_LoopProgress ==
    /\ [](last.kind = "decide" => ExecutionTick)
    /\ [][ /\ (last.kind = "decide" /\ last' # last /\ instances' = instances) =>
                last'.kind = "execute"
           /\ game_over =>
                (actions' = actions /\ (last' = last \/ last' = NoTick))
         ]_vars
    /\ [](actions # <<>> => <>(actions = <<>> \/ game_over))

====
